---- MODULE Spec2Model ----
(***************************************************************************)
(* Sliding-window rate limiter, rate-limit middleware and cache            *)
(* invalidator of the fastapi-realworld-example-app, as a state machine.   *)
(*                                                                         *)
(* Time is counted in clock ticks, TicksPerSec ticks to the second, so     *)
(* that time.time() has a fractional part and int() is a real truncation.  *)
(* Arithmetic on weighted counts is exact (rational); the floating-point   *)
(* rounding of the Python code is not modelled.                            *)
(***************************************************************************)
EXTENDS Integers, Sequences, FiniteSets, TLC

\* ---------------------------------------------------------------- bounds
TicksPerSec == 2
MaxTime == 10
MaxLimit == 3
MaxWindow == 3
NumProc == 2
RaceTime == 4
RaceLimit == 2
RaceWindow == 1
DispatchLimit == 2
DispatchWindow == 1
ScanCount == 2
MaxCounters == 2
ConfigTime == 2
ConfigLimit == 1
ConfigWindow == 1
MaxCalls == 3
MaxCloses == 2
CacheTime == 3
MaxBuilt == 2
DelayTime == 6
LockTime == 6

VARIABLES
    now,            \* the wall clock, in ticks
    store,          \* the Redis keyspace: key -> [val, exp]
    limit_configs,  \* RateLimitMiddleware.limit_configs, in dict order
    req,            \* one in-flight dispatch per worker
    admitAt,        \* history: sequential admissions decided at each tick
    admittedIn,     \* history: admissions per counter key
    settings,       \* get_app_settings(): cache_enabled
    hits,           \* CacheMonitor.hits
    misses,         \* CacheMonitor.misses
    instance,       \* RedisClient._instance: 0 for None, else the connection
    call,           \* one in-flight call of a wrapped operation per worker
    inv,            \* the in-flight invalidate_cache call
    created,        \* history: connections created so far
    closed,         \* history: per close_redis call, the connection closed
    recorded,       \* history: record_hit and record_miss calls made
    built,          \* the calls of the article-list key builder made so far
    db              \* the version of the entity that the read operations read

limiterVars == <<limit_configs, req, admitAt, admittedIn>>
dataVars == <<built, db>>
cacheVars ==
    <<settings, hits, misses, instance, call, inv, created, closed, recorded,
      dataVars>>
vars == <<now, store, limiterVars, cacheVars>>

Max(a, b) == IF a >= b THEN a ELSE b
Min(a, b) == IF a <= b THEN a ELSE b

Procs == 1..NumProc
Workers == {1}
Ticks == 0..MaxTime
Seconds == 0..(MaxTime \div TicksPerSec)

\* ------------------------------------------------------------ the clock
\* int(x) of Python: truncation toward zero of the rational num/den, den > 0.
PyInt(num, den) == IF num >= 0 THEN num \div den ELSE -((-num) \div den)

\* int(time.time()) at tick t
TimeInt(t) == PyInt(t, TicksPerSec)

\* ------------------------------------------------------------ the store
NoExpiry == -1

Live(entry, t) == entry.exp = NoExpiry \/ t < entry.exp

\* the keys whose expiry time has come are gone
Purge(s, t) == [k \in {x \in DOMAIN s : Live(s[x], t)} |-> s[k]]

\* GET: <<>> for nil, <<value>> otherwise
RedisGet(s, key) == IF key \in DOMAIN s THEN <<s[key].val>> ELSE <<>>

\* INCR: atomic at the server; a missing key is created at 1 with no expiry
RedisIncr(s, key) ==
    IF key \in DOMAIN s
    THEN [s EXCEPT ![key].val = @ + 1]
    ELSE (key :> [val |-> 1, exp |-> NoExpiry]) @@ s

\* EXPIRE key seconds, issued at tick t
RedisExpire(s, key, seconds, t) ==
    IF key \in DOMAIN s
    THEN [s EXCEPT ![key].exp = t + seconds * TicksPerSec]
    ELSE s

\* DEL key [key ...]: the keyspace without them, and how many existed
RedisDelete(s, keys) == [k \in DOMAIN s \ keys |-> s[k]]
RedisDeleted(s, keys) == Cardinality(keys \cap DOMAIN s)

\* ------------------------------------------------------ RateLimiter.check
\* f"rate_limit:{identifier}:{endpoint}:{window}", as its colon-separated
\* segments; identifier is itself a sequence of segments (<<"ip", addr>>).
GenerateKey(identifier, endpoint, window) ==
    <<"rate_limit">> \o identifier \o <<endpoint, ToString(window)>>

GetCount(s, identifier, endpoint, window) ==
    LET count == RedisGet(s, GenerateKey(identifier, endpoint, window))
    IN  IF count # <<>> THEN count[1] ELSE 0

\* current_window = int(time.time()) // window * window, in seconds
CurrentWindow(t, window) == (TimeInt(t) \div window) * window

\* time.time() - current_window, in ticks
Elapsed(t, current_window) == t - current_window * TicksPerSec

\* weighted_count = current_count + previous_count * (1 - elapsed / window)
\* as the numerator over the denominator WeightDen(window)
WeightDen(window) == window * TicksPerSec

WeightedNumFull(current_count, previous_count, elapsed, window) ==
    (current_count + previous_count) * WeightDen(window)

WeightedNum(current_count, previous_count, elapsed, window) ==
    current_count * WeightDen(window)
        + previous_count * (WeightDen(window) - elapsed)

AllowedInclusive(weighted_num, limit, window) ==
    weighted_num <= limit * WeightDen(window)

\* allowed = weighted_count < limit
Allowed(weighted_num, limit, window) ==
    weighted_num < limit * WeightDen(window)

\* remaining = max(0, limit - int(weighted_count) - (1 if allowed else 0))
Remaining(weighted_num, limit, window, allowed) ==
    Max(0, limit - PyInt(weighted_num, WeightDen(window))
              - (IF allowed THEN 1 ELSE 0))

\* RateLimitInfo(limit, remaining, reset_time)
RateLimitInfo(limit, remaining, reset_time) ==
    [limit |-> limit, remaining |-> remaining, reset_time |-> reset_time]

NoInfo == [limit |-> 0, remaining |-> 0, reset_time |-> 0]

\* ------------------------------------------------- RateLimitMiddleware
\* RateLimitConfig(limit, window, dimension)
RateLimitConfig(limit, window, dimension) ==
    [limit |-> limit, window |-> window, dimension |-> dimension]

\* d[key] = value of a Python dict kept as a sequence of <<key, value>> in
\* insertion order: a key already present keeps its place and takes the value
\* a dict display in which the first value given for a key stays
DictSetKeepFirst(d, key, value) ==
    IF \E i \in DOMAIN d : d[i][1] = key THEN d
    ELSE Append(d, <<key, value>>)

DictSet(d, key, value) ==
    IF \E i \in DOMAIN d : d[i][1] = key
    THEN [i \in DOMAIN d |-> IF d[i][1] = key THEN <<key, value>> ELSE d[i]]
    ELSE Append(d, <<key, value>>)

RECURSIVE DictOf(_)
DictOf(items) ==
    IF items = <<>> THEN <<>>
    ELSE LET n == Len(items)
         IN  DictSet(DictOf(SubSeq(items, 1, n - 1)), items[n][1], items[n][2])

\* the dict display of _load_limit_configs, entry by entry
LoadLimitConfigs ==
    DictOf(<<
        <<"/api/users/login", RateLimitConfig(5, 60, "ip")>>,
        <<"/api/users", RateLimitConfig(3, 3600, "ip")>>,
        <<"/api/articles", RateLimitConfig(10, 3600, "user")>>,
        <<"/api/articles/{slug}/comments", RateLimitConfig(20, 3600, "user")>>,
        <<"/api/articles/{slug}/favorite", RateLimitConfig(30, 60, "user")>>,
        <<"/api/articles", RateLimitConfig(100, 60, "ip")>>,
        <<"/api/articles/{slug}", RateLimitConfig(60, 60, "ip")>>,
        <<"/api/profiles/{username}", RateLimitConfig(60, 60, "ip")>> >>)

\* The table with every quota replaced by limit per window seconds: the
\* quotas of the source (3 per hour up to 100 per minute) are out of reach of
\* an exhaustive run, the keys, their order and the dimensions are kept.
WithQuota(table, limit, window) ==
    [i \in DOMAIN table |->
        <<table[i][1], [table[i][2] EXCEPT !.limit = limit, !.window = window]>>]

\* str.split("/") on the paths and patterns of the model
Split(path) ==
    CASE path = "/static/logo.png" -> <<"", "static", "logo.png">>
      [] path = "/api/tags" -> <<"", "api", "tags">>
      [] path = "/api/users/" -> <<"", "api", "users", "">>
      [] path = "/api/articles/" -> <<"", "api", "articles", "">>
      [] path = "/api/articles/intro" -> <<"", "api", "articles", "intro">>
      [] path = "/api/articles/intro/comments" ->
             <<"", "api", "articles", "intro", "comments">>
      [] path = "/api/articles/intro/likes" ->
             <<"", "api", "articles", "intro", "likes">>
      [] path = "/api/profiles/ann" -> <<"", "api", "profiles", "ann">>
      [] path = "/api/users/login" -> <<"", "api", "users", "login">>
      [] path = "/api/users" -> <<"", "api", "users">>
      [] path = "/api/articles" -> <<"", "api", "articles">>
      [] path = "/api/articles/{slug}/comments" ->
             <<"", "api", "articles", "{slug}", "comments">>
      [] path = "/api/articles/{slug}/favorite" ->
             <<"", "api", "articles", "{slug}", "favorite">>
      [] path = "/api/articles/{slug}" -> <<"", "api", "articles", "{slug}">>
      [] path = "/api/profiles/{username}" ->
             <<"", "api", "profiles", "{username}">>

\* segment.startswith("{") and segment.endswith("}")
IsPlaceholder(segment) == segment \in {"{slug}", "{username}"}

\* "{" in pattern and "}" in pattern
HasBraces(pattern) ==
    \E i \in DOMAIN Split(pattern) : IsPlaceholder(Split(pattern)[i])

\* path.startswith("/static")
StartsWithStatic(path) ==
    /\ Len(Split(path)) >= 2
    /\ Split(path)[1] = ""
    /\ Split(path)[2] \in {"static", "staticfiles"}

\* a pattern that matches every path it is a prefix of
PatternMatchesPrefix(pattern, path) ==
    LET pattern_parts == Split(pattern)
        path_parts == Split(path)
    IN  /\ Len(pattern_parts) <= Len(path_parts)
        /\ \A i \in DOMAIN pattern_parts :
               \/ IsPlaceholder(pattern_parts[i])
               \/ pattern_parts[i] = path_parts[i]

PatternMatches(pattern, path) ==
    LET pattern_parts == Split(pattern)
        path_parts == Split(path)
    IN  /\ Len(pattern_parts) = Len(path_parts)
        /\ \A i \in DOMAIN pattern_parts :
               \/ IsPlaceholder(pattern_parts[i])
               \/ pattern_parts[i] = path_parts[i]

\* _get_rate_limit_config: the exact path, else the first pattern in dict
\* order that matches, else the unlimited default
GetRateLimitConfig(table, path) ==
    IF \E i \in DOMAIN table : table[i][1] = path
    THEN table[CHOOSE i \in DOMAIN table : table[i][1] = path][2]
    ELSE LET found == {i \in DOMAIN table :
                           /\ HasBraces(table[i][1])
                           /\ PatternMatches(table[i][1], path)}
         IN  IF found # {}
             THEN table[CHOOSE i \in found : \A j \in found : i <= j][2]
             ELSE RateLimitConfig(0, 60, "ip")

\* x_forwarded_for.split(',')[0].strip() on the header values of the model
FirstAddress(x_forwarded_for) ==
    CASE x_forwarded_for = "10.9.9.9" -> "10.9.9.9"
      [] x_forwarded_for = " 10.9.9.9 , 10.0.0.7" -> "10.9.9.9"
      [] x_forwarded_for = "10.0.0.1,10.9.9.9" -> "10.0.0.1"

\* the address of every caller, whatever the principal
GetIpIdentifierPeerOnly(request) == <<"ip", request.client>>

\* _get_ip_identifier: request.headers.get("X-Forwarded-For") is None when
\* the header is absent, here ""
GetIpIdentifier(request) ==
    IF request.x_forwarded_for # ""
    THEN <<"ip", FirstAddress(request.x_forwarded_for)>>
    ELSE <<"ip", request.client>>

\* _get_identifier
GetIdentifier(request, config) ==
    IF config.dimension = "user"
    THEN IF request.user # "" THEN <<"user", request.user>>
         ELSE GetIpIdentifier(request)
    ELSE GetIpIdentifier(request)

\* _rate_limit_response: JSONResponse(status_code=429, content={...})
RateLimitResponse(retry_after) ==
    [status |-> 429,
     body |-> {"error", "message", "retry_after"},
     retry_after |-> retry_after,
     headers |-> <<>>,
     forwarded |-> 0]

\* what call_next(request) returns: the pipeline's response, which carries
\* no rate-limit header of its own
CallNext(request) ==
    [status |-> 200, body |-> {}, retry_after |-> 0, headers |-> <<>>,
     forwarded |-> 1]

NoResponse ==
    [status |-> 0, body |-> {}, retry_after |-> 0, headers |-> <<>>,
     forwarded |-> 0]

\* response.headers["X-RateLimit-..."] = str(...)
WithRateLimitHeaders(response, info) ==
    [response EXCEPT !.headers =
        ("X-RateLimit-Limit" :> ToString(info.limit))
        @@ ("X-RateLimit-Remaining" :> ToString(info.remaining))
        @@ ("X-RateLimit-Reset" :> ToString(info.reset_time))
        @@ response.headers]

\* the requests of the model
Paths == {"/static/logo.png", "/api/tags", "/api/articles"}
MeteredPaths == {"/api/articles"}
Users == {""}
Clients == {"10.0.0.1"}
NoHeader == {""}

\* the requests that exercise the quota table: exact paths, parametrized
\* patterns, paths that no entry covers, with and without a principal and a
\* forwarded-for header
ConfigPaths ==
    {"/static/logo.png", "/api/tags", "/api/users/login", "/api/users/",
     "/api/articles", "/api/articles/", "/api/articles/intro",
     "/api/articles/intro/comments", "/api/articles/intro/likes",
     "/api/profiles/ann"}
ConfigUsers == {"", "7"}
ForwardedFor == {"", "10.9.9.9", " 10.9.9.9 , 10.0.0.7", "10.0.0.1,10.9.9.9"}

\* ------------------------------------------------------ invalidate_cache
\* the cache entries that earlier requests left in the store
\*   articles:list:all:page:1:limit:20 and tags:all, SETEX with the default TTL
CacheKeys ==
    {<<"articles", "list", "all", "page", "1", "limit", "20">>,
     <<"tags", "all">>}

cache_default_ttl == 300

CacheEntries ==
    [k \in CacheKeys |->
        [val |-> <<"[]", <<>>>>, exp |-> cache_default_ttl * TicksPerSec]]

\* a glob pattern with at most a trailing "*": its literal segments and
\* whether the "*" follows them
Pattern(prefix, wild) == [prefix |-> prefix, wild |-> wild]

IsPrefix(prefix, key) ==
    /\ Len(prefix) <= Len(key)
    /\ \A i \in DOMAIN prefix : prefix[i] = key[i]

\* MATCH pattern
KeyMatches(pattern, key) ==
    IF pattern.wild THEN IsPrefix(pattern.prefix, key)
    ELSE key = pattern.prefix

\* the slots of the keyspace that SCAN walks: every key the model can hold,
\* in one fixed order
AllKeys ==
    CacheKeys \cup
    {GenerateKey(<<"ip", client>>, path, window) :
        client \in Clients, path \in MeteredPaths, window \in Seconds}

RECURSIVE SeqOf(_)
SeqOf(keys) ==
    IF keys = {} THEN <<>>
    ELSE LET k == CHOOSE x \in keys : TRUE
         IN  <<k>> \o SeqOf(keys \ {k})

Slots == SeqOf(AllKeys)

\* a SCAN that reports the walk complete after its first batch
RedisScanOnce(s, cursor, pattern, count) ==
    [cursor |-> 0,
     keys |-> {Slots[i] : i \in (cursor + 1)..Min(cursor + count, Len(Slots))}
                  \cap {k \in DOMAIN s : KeyMatches(pattern, k)}]

\* a SCAN whose cursor stays at the end of the keyspace
RedisScanStuck(s, cursor, pattern, count) ==
    [cursor |-> Min(cursor + count, Len(Slots)),
     keys |-> {Slots[i] : i \in (cursor + 1)..Min(cursor + count, Len(Slots))}
                  \cap {k \in DOMAIN s : KeyMatches(pattern, k)}]

\* SCAN cursor MATCH pattern COUNT count: the next cursor (0 once the walk is
\* complete) and the matching keys of the slots walked
RedisScan(s, cursor, pattern, count) ==
    LET last == Min(cursor + count, Len(Slots))
    IN  [cursor |-> IF last = Len(Slots) THEN 0 ELSE last,
         keys |-> {Slots[i] : i \in (cursor + 1)..last}
                      \cap {k \in DOMAIN s : KeyMatches(pattern, k)}]

\* lines 20-26: the scan loop of one pattern
RECURSIVE ScanLoop(_, _, _, _)
ScanLoop(s, pattern, cursor, invalidated_count) ==
    LET scan == RedisScan(s, cursor, pattern, ScanCount)
        after == IF scan.keys # {} THEN RedisDelete(s, scan.keys) ELSE s
        count == IF scan.keys # {}
                 THEN invalidated_count + RedisDeleted(s, scan.keys)
                 ELSE invalidated_count
    IN  IF scan.cursor = 0 THEN [store |-> after, count |-> count]
        ELSE ScanLoop(after, pattern, scan.cursor, count)

\* invalidate_cache(patterns): the store afterwards and the returned count
RECURSIVE InvalidateFrom(_, _, _)
InvalidateFrom(s, patterns, invalidated_count) ==
    IF patterns = <<>> THEN [store |-> s, count |-> invalidated_count]
    ELSE LET done == ScanLoop(s, Head(patterns), 0, invalidated_count)
         IN  InvalidateFrom(done.store, Tail(patterns), done.count)

InvalidateCache(s, patterns) == InvalidateFrom(s, patterns, 0)

\* the calls of the model: invalidate_cache(["articles:list:*"]),
\* invalidate_cache(["tags:all"]) and invalidate_cache(["*"])
InvalidateCalls ==
    {<<Pattern(<<"articles", "list">>, TRUE)>>,
     <<Pattern(<<"tags", "all">>, FALSE)>>,
     <<Pattern(<<>>, TRUE)>>}

\* ------------------------------------------------------------ CacheKeys
\* an Optional[str] argument: <<>> for None, else the str as the sequence of
\* its colon-separated segments (<<"">> is the empty str)
NoneArg == <<>>
Truthy(arg) == arg # NoneArg /\ arg # <<"">>

\* CacheKeys.articles_list(page, limit, tag, author, favorited): the key as
\* the sequence of its colon-separated segments
ArticlesList(page, limit, tag, author, favorited) ==
    LET key_parts ==
            IF Truthy(tag) THEN <<"articles", "list", "tag">> \o tag
            ELSE IF Truthy(author)
                 THEN <<"articles", "list", "author">> \o author
                 ELSE IF Truthy(favorited)
                      THEN <<"articles", "list", "favorited">> \o favorited
                      ELSE <<"articles", "list", "all">>
    IN  key_parts \o <<"page", ToString(page), "limit", ToString(limit)>>

\* the arguments that the callers of the key builder pass: the filters of
\* ArticlesRepository.filter_articles, each absent or present, one page
\* size and two pages
ListFilters ==
    [tag : {NoneArg, <<"">>, <<"x">>, <<"y">>},
     author : {NoneArg, <<"x">>},
     favorited : {NoneArg, <<"x">>},
     page : {1, 2},
     limit : {20}]

\* ------------------------------------------------------- wrapped calls
\* Python values, tagged: None, a pydantic model object of class cls with
\* field contents data, a dict, a str, a list, a number
PyNone == <<"None">>
Model(cls, data) == <<"model", cls, data>>
PyDict(data) == <<"dict", data>>
PyStr(text) == <<"str", text>>
PyList(items) == <<"list", items>>
PyNumber(digits) == <<"int", digits>>

\* the text of a str: plain characters, or JSON text of an object, of an
\* array of texts, of a string literal holding a text, of a number
Raw(chars) == <<"raw", chars>>
JObject(data) == <<"{}", data>>
JArray(items) == <<"[]", items>>
JString(text) == <<"quoted", text>>
JNumber(digits) == <<"num", digits>>

IsModel(value) == value[1] = "model"

\* result.json() of a model object
ModelJson(value) == JObject(value[3])

\* json.dumps(value)
RECURSIVE Dumps(_)
Dumps(value) ==
    CASE value[1] = "dict" -> JObject(value[2])
      [] value[1] = "str" -> JString(value[2])
      [] value[1] = "int" -> JNumber(value[2])
      [] value[1] = "list" ->
             JArray([i \in DOMAIN value[2] |-> Dumps(value[2][i])])

\* json.loads(text)
RECURSIVE Loads(_)
Loads(text) ==
    CASE text[1] = "{}" -> PyDict(text[2])
      [] text[1] = "quoted" -> PyStr(text[2])
      [] text[1] = "num" -> PyNumber(text[2])
      [] text[1] = "[]" ->
             PyList([i \in DOMAIN text[2] |-> Loads(text[2][i])])

\* cls.parse_raw(text): the model object of class cls read from the JSON
\* object text
ParseRaw(cls, text) == Model(cls, text[2])

\* the return annotation of a wrapped operation: a BaseModel subclass,
\* List[a BaseModel subclass], or anything else (none, Optional[...], int,
\* List[str])
ReturnsModel(cls) == <<"model", cls>>
ReturnsList(cls) == <<"list", cls>>
ReturnsOther == <<"other", "">>

\* wrapper, lines 49-61: what a hit returns
Deserialize(return_type, cached_data) ==
    CASE return_type[1] = "model" -> ParseRaw(return_type[2], cached_data)
      [] return_type[1] = "list" ->
             LET items == Loads(cached_data)[2]
             IN  PyList([i \in DOMAIN items |->
                            ParseRaw(return_type[2], items[i][2])])
      [] OTHER -> Loads(cached_data)

\* wrapper, lines 75-80: what a miss stores
Serialize(result) ==
    IF IsModel(result) THEN ModelJson(result)
    ELSE IF /\ result[1] = "list"
            /\ result[2] # <<>>
            /\ IsModel(result[2][1])
         THEN Dumps(PyList([i \in DOMAIN result[2] |->
                               PyStr(ModelJson(result[2][i]))]))
         ELSE Dumps(result)

\* a wrapped operation: its rendered cache key, the ttl of its decorator
\* (0 for None), its return annotation and the results it can compute
WrappedOp(key, ttl, return_type, results) ==
    [key |-> key, ttl |-> ttl, return_type |-> return_type,
     results |-> results]

\* the wrapped operations of the model
WrappedOps ==
    << WrappedOp(<<"article", "detail", "intro">>, 1, ReturnsModel("Article"),
                 <<Model("Article", "intro")>>),
       WrappedOp(<<"articles", "list", "all", "page", "1", "limit", "20">>, 0,
                 ReturnsList("Article"),
                 <<PyList(<<Model("Article", "intro"),
                            Model("Article", "draft")>>),
                   PyList(<<>>)>>),
       WrappedOp(<<"tags", "all">>, 0, ReturnsOther,
                 <<PyList(<<PyStr(Raw("python")), PyStr(Raw("tla"))>>)>>),
       WrappedOp(<<"article", "detail", "draft">>, 1, ReturnsOther,
                 <<PyNone, Model("Article", "draft")>>) >>

\* SETEX key seconds value, issued at tick t
RedisSetex(s, key, seconds, value, t) ==
    (key :> [val |-> value, exp |-> t + seconds * TicksPerSec]) @@ s

\* the locals of wrapper for one call; hit, miss and invoked count what the
\* call has done, after_invalidation tells whether it began after a call of
\* invalidate_cache had returned
IdleCall ==
    [pc |-> "idle", op |-> 1, redis |-> 0, cached_data |-> <<>>,
     result |-> PyNone, returned |-> PyNone, raised |-> FALSE,
     hit |-> 0, miss |-> 0, invoked |-> 0, after_invalidation |-> FALSE]

\* CacheMonitor.record_hit, record_miss: the counters afterwards
RecordHitAsMiss(h, m) == [hits |-> h, misses |-> m + 1]
RecordHit(h, m) == [hits |-> h + 1, misses |-> m]
RecordMissReset(h, m) == [hits |-> h, misses |-> 1]
RecordMiss(h, m) == [hits |-> h, misses |-> m + 1]

\* CacheMonitor.get_stats; hit_rate is kept as the exact fraction, its
\* formatting to two decimals is not modelled
GetStats(h, m) ==
    LET total == h + m
    IN  [hits |-> h, misses |-> m, total |-> total,
         hit_rate |-> IF total > 0 THEN <<h, total>> ELSE <<0, 1>>]

\* wrapper, line 33: settings.cache_enabled
CacheEnabledAlways(s) == TRUE
CacheEnabled(s) == s.cache_enabled

\* the configured default whatever the decorator says
CacheTtlDefault(ttl) == cache_default_ttl

\* wrapper, line 72: cache_ttl = ttl or settings.cache_default_ttl
CacheTtl(ttl) == IF ttl # 0 THEN ttl ELSE cache_default_ttl

\* RedisClient.get_redis, line 13: a connection has to be made
NeedsConnectAlways(inst) == TRUE
NeedsConnect(inst) == inst = 0

\* the locals of invalidate_cache: the patterns and the position in them,
\* the cursor and the keys of the last SCAN, the count so far; before is the
\* store when the call began and deletes the number of DEL commands sent
IdleInv ==
    [pc |-> "idle", patterns |-> <<>>, index |-> 1, cursor |-> 0,
     keys |-> {}, invalidated_count |-> 0, before |-> <<>>, deletes |-> 0]

\* the calls of invalidate_cache taken one step at a time: the calls above,
\* patterns that overlap, a pattern twice, a pattern that matches nothing,
\* and no pattern at all
InvalidatePatternLists ==
    InvalidateCalls \cup
    {<<Pattern(<<"articles", "list">>, TRUE), Pattern(<<"articles">>, TRUE)>>,
     <<Pattern(<<"rate_limit", "ip">>, TRUE), Pattern(<<"rate_limit">>, TRUE)>>,
     <<Pattern(<<"tags", "all">>, FALSE), Pattern(<<"tags", "all">>, FALSE)>>,
     <<Pattern(<<"profile">>, TRUE)>>,
     <<>>}

\* the entries a store can hold when invalidate_cache is called: the cache
\* entries and the counters of three windows of one client
InvalidateEntries ==
    CacheEntries @@
    [k \in {GenerateKey(<<"ip", "10.0.0.1">>, "/api/articles", w) :
                w \in 0..2} |-> [val |-> 1, exp |-> NoExpiry]]

\* ------------------------------------------------------------ requests

\* the history of admissions is followed up to this many per counter
MaxAdmitted == MaxLimit + NumProc + 1

Count(f, k) == IF k \in DOMAIN f THEN f[k] ELSE 0
Bump(f, k) == (k :> Count(f, k) + 1) @@ f

IdleReq ==
    [pc |-> "idle", path |-> "", user |-> "", client |-> "",
     x_forwarded_for |-> "",
     config |-> RateLimitConfig(0, 0, ""), identifier |-> <<>>,
     current_window |-> 0, current_count |-> 0, previous_count |-> 0,
     allowed |-> FALSE, info |-> NoInfo,
     response |-> NoResponse, checks |-> 0, t_request |-> 0]

\* the request that arrives at tick t
Request(path, user, client, t) ==
    [IdleReq EXCEPT !.path = path, !.user = user, !.client = client,
                    !.t_request = t]

CounterKey(r, window) == GenerateKey(r.identifier, r.path, window)

\* no request let through unchecked
BypassesNever(table, path) == FALSE

\* dispatch, lines 106-117: the request goes straight to the pipeline
Bypasses(table, path) ==
    StartsWithStatic(path) \/ GetRateLimitConfig(table, path).limit = 0

\* dispatch, lines 113-128, and check, lines 40-41: the locals of a metered
\* request when its check is about to issue the first GET
Metered(table, request, t) ==
    LET config == GetRateLimitConfig(table, request.path)
    IN  [request EXCEPT !.pc = "get_current",
                        !.config = config,
                        !.identifier = GetIdentifier(request, config),
                        !.checks = 1,
                        !.current_window = CurrentWindow(t, config.window)]

\* check, line 44
AfterGetCurrent(r, s) ==
    [r EXCEPT !.pc = "get_previous",
              !.current_count =
                  GetCount(s, r.identifier, r.path, r.current_window)]

\* check, lines 41 and 45
AfterGetPrevious(r, s) ==
    [r EXCEPT !.pc = "decide",
              !.previous_count =
                  GetCount(s, r.identifier, r.path,
                           r.current_window - r.config.window)]

\* check, lines 48-55 and 62-65: the clock is read again, the decision is
\* taken, and remaining and reset_time follow from the same locals
AfterDecide(r, t) ==
    LET limit == r.config.limit
        window == r.config.window
        elapsed == Elapsed(t, r.current_window)
        weighted == WeightedNum(r.current_count, r.previous_count,
                                elapsed, window)
        allowed == Allowed(weighted, limit, window)
    IN  [r EXCEPT !.pc = IF allowed THEN "incr" ELSE "respond",
                  !.allowed = allowed,
                  !.info = RateLimitInfo(limit,
                               Remaining(weighted, limit, window, allowed),
                               r.current_window + window)]

\* the counter written back from the count read before the decision
StoreAfterIncrStale(r, s) ==
    (CounterKey(r, r.current_window) :>
        [val |-> r.current_count + 1, exp |-> NoExpiry]) @@ s

\* _increment, line 78: await redis.incr(key)
StoreAfterIncr(r, s) == RedisIncr(s, CounterKey(r, r.current_window))

\* EXPIRE with a timeout of 0 seconds, which deletes the key at once
StoreAfterExpireZero(r, s, t) ==
    RedisDelete(s, {CounterKey(r, r.current_window)})

\* EXPIRE with a timeout of one window
StoreAfterExpireWindow(r, s, t) ==
    RedisExpire(s, CounterKey(r, r.current_window), r.config.window, t)

\* _increment, line 79: await redis.expire(key, window * 2)
StoreAfterExpire(r, s, t) ==
    RedisExpire(s, CounterKey(r, r.current_window), r.config.window * 2, t)

\* retry_after = int(info.reset_time - time.time())
RetryAfter(info, t) == PyInt(info.reset_time * TicksPerSec - t, TicksPerSec)

\* the pipeline called whatever the limiter decided
AfterRespondForwardAlways(r, t) ==
    [r EXCEPT !.pc = "done",
              !.response = WithRateLimitHeaders(CallNext(r), r.info)]

\* the headers attached to the rejection only
AfterRespondHeadersOnReject(r, t) ==
    [r EXCEPT !.pc = "done",
              !.response =
                  IF r.allowed THEN CallNext(r)
                  ELSE WithRateLimitHeaders(
                           RateLimitResponse(RetryAfter(r.info, t)), r.info)]

\* dispatch, lines 131-142
AfterRespond(r, t) ==
    LET response == IF r.allowed THEN CallNext(r)
                    ELSE RateLimitResponse(RetryAfter(r.info, t))
    IN  [r EXCEPT !.pc = "done",
                  !.response = WithRateLimitHeaders(response, r.info)]

\* a check that goes on to INCR and EXPIRE whatever it decided
AfterCheckCountsRejected(r, t) == [AfterDecide(r, t) EXCEPT !.pc = "incr"]

\* check, lines 48-65, and dispatch, lines 131-136: an admitted check has
\* its INCR to await; a rejected one returns at once and the 429 is built
AfterCheck(r, t) ==
    LET d == AfterDecide(r, t)
    IN  IF d.allowed THEN d ELSE AfterRespond(d, t)

\* ------------------------------------------------------------- actions
\* a request arrives at worker p: dispatch up to its first await
StartWith(p, paths, users, headers) ==
    /\ req[p].pc \in {"idle", "done"}
    /\ \E path \in paths, user \in users, client \in Clients,
          header \in headers :
        LET request == [Request(path, user, client, now)
                            EXCEPT !.x_forwarded_for = header]
            metered == Metered(limit_configs, request, now)
        IN  IF Bypasses(limit_configs, path)
            THEN req' = [req EXCEPT ![p] =
                            [request EXCEPT !.pc = "done",
                                            !.response = CallNext(request)]]
            ELSE /\ Count(admittedIn,
                          CounterKey(metered, metered.current_window))
                        < MaxAdmitted
                 /\ req' = [req EXCEPT ![p] = metered]
    /\ UNCHANGED <<now, store, limit_configs, admitAt, admittedIn, cacheVars>>

Start(p, paths) == StartWith(p, paths, Users, NoHeader)

GetCurrent(p) ==
    /\ req[p].pc = "get_current"
    /\ req' = [req EXCEPT ![p] = AfterGetCurrent(req[p], store)]
    /\ UNCHANGED <<now, store, limit_configs, admitAt, admittedIn, cacheVars>>

GetPrevious(p) ==
    /\ req[p].pc = "get_previous"
    /\ req' = [req EXCEPT ![p] = AfterGetPrevious(req[p], store)]
    /\ UNCHANGED <<now, store, limit_configs, admitAt, admittedIn, cacheVars>>

\* an admitted check goes on to its INCR; a rejected one returns, and
\* dispatch builds the 429 with no await in between
Decided(p) ==
    /\ req[p].pc = "decide"
    /\ req' = [req EXCEPT ![p] = AfterCheck(req[p], now)]
    /\ admittedIn' = IF req'[p].allowed
                     THEN Bump(admittedIn,
                               CounterKey(req[p], req[p].current_window))
                     ELSE admittedIn
    /\ UNCHANGED <<now, store, limit_configs, cacheVars>>

Decide(p) == Decided(p) /\ UNCHANGED admitAt

\* the same step, the history keeping the time of the latest admission only
DecideRecorded(p) ==
    /\ Decided(p)
    /\ admitAt' = IF req'[p].allowed
                  THEN [t \in Ticks |-> IF t = now THEN 1 ELSE 0]
                  ELSE admitAt

Increment(p) ==
    /\ req[p].pc = "incr"
    /\ store' = StoreAfterIncr(req[p], store)
    /\ req' = [req EXCEPT ![p].pc = "expire"]
    /\ UNCHANGED <<now, limit_configs, admitAt, admittedIn, cacheVars>>

Expire(p) ==
    /\ req[p].pc = "expire"
    /\ store' = StoreAfterExpire(req[p], store, now)
    /\ req' = [req EXCEPT ![p].pc = "respond"]
    /\ UNCHANGED <<now, limit_configs, admitAt, admittedIn, cacheVars>>

Respond(p) ==
    /\ req[p].pc = "respond"
    /\ req' = [req EXCEPT ![p] = AfterRespond(req[p], now)]
    /\ UNCHANGED <<now, store, limit_configs, admitAt, admittedIn, cacheVars>>

\* _increment, between lines 78 and 79: the request is cancelled, or the
\* EXPIRE fails, after its INCR was executed; nothing is rolled back
Cancel(p) ==
    /\ req[p].pc = "expire"
    /\ req' = [req EXCEPT ![p].pc = "done"]
    /\ UNCHANGED <<now, store, limit_configs, admitAt, admittedIn, cacheVars>>

\* a metered request served from arrival to response at one instant, no
\* other request in flight
SeqDispatch(p) ==
    /\ req[p].pc \in {"idle", "done"}
    /\ \E path \in MeteredPaths, user \in Users, client \in Clients :
        LET r0 == Metered(limit_configs, Request(path, user, client, now), now)
            r1 == AfterDecide(AfterGetPrevious(AfterGetCurrent(r0, store),
                                               store), now)
            s1 == IF r1.allowed
                  THEN StoreAfterExpire(r1, StoreAfterIncr(r1, store), now)
                  ELSE store
        IN  /\ req' = [req EXCEPT ![p] = AfterRespond(r1, now)]
            /\ store' = s1
            /\ admitAt' = IF r1.allowed THEN [admitAt EXCEPT ![now] = @ + 1]
                          ELSE admitAt
            /\ admittedIn' = IF r1.allowed
                             THEN Bump(admittedIn,
                                       CounterKey(r1, r1.current_window))
                             ELSE admittedIn
    /\ UNCHANGED <<now, limit_configs, cacheVars>>

\* the clock advances by one tick; Redis drops the keys that expire
Tick(horizon) ==
    /\ now < horizon
    /\ now' = now + 1
    /\ store' = Purge(store, now + 1)
    /\ UNCHANGED <<limit_configs, req, admitAt, admittedIn, cacheVars>>

\* a write path calls invalidate_cache(patterns)
Invalidate ==
    /\ \E patterns \in InvalidateCalls :
           store' = InvalidateCache(store, patterns).store
    /\ UNCHANGED <<now, limit_configs, req, admitAt, admittedIn, cacheVars>>

Quiescent == \A p \in Procs : req[p].pc \in {"idle", "done"}

\* ------------------------------------------------- actions: CacheKeys
\* a caller builds the key of an article list
BuildKey ==
    /\ Len(built) < MaxBuilt
    /\ \E args \in ListFilters :
           built' = Append(built,
                           [args |-> args,
                            key |-> ArticlesList(args.page, args.limit,
                                                 args.tag, args.author,
                                                 args.favorited)])
    /\ UNCHANGED <<now, store, limiterVars, settings, hits, misses, instance,
                   call, inv, created, closed, recorded, db>>

\* ------------------------------------------- actions: invalidate_cache
\* lines 15-19: a call begins; it takes the shared connection, making one
\* if there is none, and starts on its first pattern
InvStart(lists) ==
    /\ inv.pc = "idle"
    /\ \E patterns \in lists :
           inv' = [IdleInv EXCEPT
                      !.pc = IF patterns = <<>> THEN "done" ELSE "scan",
                      !.patterns = patterns,
                      !.before = store]
    /\ instance' = IF NeedsConnect(instance) THEN created + 1 ELSE instance
    /\ created' = IF NeedsConnect(instance) THEN created + 1 ELSE created
    /\ UNCHANGED <<now, store, limiterVars, dataVars, settings, hits, misses, call,
                   closed, recorded>>

\* line 20: one SCAN from the cursor; COUNT is a hint, the store walks
\* between 1 and ScanCount slots
InvScan ==
    /\ inv.pc = "scan"
    /\ \E count \in 1..ScanCount :
           LET scan == RedisScan(store, inv.cursor, inv.patterns[inv.index],
                                 count)
           IN  inv' = [inv EXCEPT !.pc = "delete",
                                  !.cursor = scan.cursor,
                                  !.keys = scan.keys]
    /\ UNCHANGED <<now, store, limiterVars, dataVars, settings, hits, misses, instance,
                   call, created, closed, recorded>>

\* lines 21-26: the keys of the batch are deleted and counted; cursor 0 ends
\* the loop of this pattern, and the last pattern ends the call
InvDelete ==
    /\ inv.pc = "delete"
    /\ store' = IF inv.keys # {} THEN RedisDelete(store, inv.keys) ELSE store
    /\ inv' = [inv EXCEPT
                  !.invalidated_count =
                      IF inv.keys # {} THEN @ + RedisDeleted(store, inv.keys)
                      ELSE @,
                  !.deletes = IF inv.keys # {} THEN @ + 1 ELSE @,
                  !.keys = {},
                  !.index = IF inv.cursor = 0 /\ inv.index < Len(inv.patterns)
                            THEN @ + 1 ELSE @,
                  !.pc = IF inv.cursor = 0 /\ inv.index = Len(inv.patterns)
                         THEN "done" ELSE "scan"]
    /\ UNCHANGED <<now, limiterVars, dataVars, settings, hits, misses, instance, call,
                   created, closed, recorded>>

\* ------------------------------------------------ actions: wrapped calls
\* wrapper, lines 32-37: a call of a wrapped operation begins at worker p
CallStart(p, ops) ==
    /\ call[p].pc \in {"idle", "done"}
    /\ recorded.hit + recorded.miss < MaxCalls
    /\ \E op \in ops :
           call' = [call EXCEPT ![p] =
                       [IdleCall EXCEPT
                           !.op = op,
                           !.after_invalidation = (inv.pc = "done"),
                           !.pc = IF CacheEnabled(settings) THEN "acquire"
                                  ELSE "func"]]
    /\ UNCHANGED <<now, store, limiterVars, dataVars, settings, hits, misses, instance,
                   inv, created, closed, recorded>>

\* RedisClient.get_redis, lines 13 and 20: the shared connection if there is
\* one, else go and make one
Acquire(p) ==
    /\ call[p].pc = "acquire"
    /\ call' = [call EXCEPT ![p] =
                   IF NeedsConnect(instance)
                   THEN [@ EXCEPT !.pc = "connect"]
                   ELSE [@ EXCEPT !.pc = "get", !.redis = instance]]
    /\ UNCHANGED <<now, store, limiterVars, dataVars, settings, hits, misses, instance,
                   inv, created, closed, recorded>>

\* RedisClient.get_redis, lines 14-20: Redis.from_url returns, the
\* connection becomes the shared one and is handed to the caller
Connect(p) ==
    /\ call[p].pc = "connect"
    /\ created' = created + 1
    /\ instance' = created + 1
    /\ call' = [call EXCEPT ![p].pc = "get", ![p].redis = created + 1]
    /\ UNCHANGED <<now, store, limiterVars, dataVars, settings, hits, misses, inv,
                   closed, recorded>>

\* wrapper, lines 43-64: GET returns; a hit is counted and returned, a miss
\* is counted and goes on to the underlying operation
CallGet(p) ==
    /\ call[p].pc = "get"
    /\ LET op == WrappedOps[call[p].op]
           cached_data == RedisGet(store, op.key)
           monitor == IF cached_data # <<>> THEN RecordHit(hits, misses)
                      ELSE RecordMiss(hits, misses)
       IN  /\ hits' = monitor.hits
           /\ misses' = monitor.misses
           /\ IF cached_data # <<>>
              THEN /\ call' = [call EXCEPT
                                  ![p].pc = "done",
                                  ![p].cached_data = cached_data,
                                  ![p].hit = 1,
                                  ![p].returned =
                                      Deserialize(op.return_type,
                                                  cached_data[1])]
                   /\ recorded' = [recorded EXCEPT !.hit = @ + 1]
              ELSE /\ call' = [call EXCEPT ![p].pc = "func", ![p].miss = 1]
                   /\ recorded' = [recorded EXCEPT !.miss = @ + 1]
    /\ UNCHANGED <<now, store, limiterVars, dataVars, settings, instance, inv, created,
                   closed>>

\* wrapper, line 43: GET raises (the store is unreachable); nothing catches
\* it, the call ends with the exception
CallGetFails(p) ==
    /\ call[p].pc = "get"
    /\ call' = [call EXCEPT ![p].pc = "done", ![p].raised = TRUE]
    /\ UNCHANGED <<now, store, limiterVars, dataVars, settings, hits, misses, instance,
                   inv, created, closed, recorded>>

\* wrapper, lines 34 and 67-70: the underlying operation returns one of
\* the results numbered in choices
CallFuncWith(p, choices) ==
    /\ call[p].pc = "func"
    /\ \E i \in DOMAIN WrappedOps[call[p].op].results \cap choices :
           LET result == WrappedOps[call[p].op].results[i]
           IN  call' = [call EXCEPT
                   ![p].result = result,
                   ![p].invoked = @ + 1,
                   ![p].pc = IF call[p].miss = 1 /\ result[1] # "None"
                             THEN "setex" ELSE "done",
                   ![p].returned = IF call[p].miss = 1 /\ result[1] # "None"
                                   THEN @ ELSE result]
    /\ UNCHANGED <<now, store, limiterVars, dataVars, settings, hits, misses, instance,
                   inv, created, closed, recorded>>

\* wrapper, lines 72-84: the result is serialized, SETEX returns, the
\* result is returned
CallSetex(p) ==
    /\ call[p].pc = "setex"
    /\ LET op == WrappedOps[call[p].op]
       IN  /\ store' = RedisSetex(store, op.key, CacheTtl(op.ttl),
                                  Serialize(call[p].result), now)
           /\ recorded' = [recorded EXCEPT
                              !.written = (op.key :> call[p].result) @@ @]
    /\ call' = [call EXCEPT ![p].pc = "done",
                            ![p].returned = call[p].result]
    /\ UNCHANGED <<now, limiterVars, dataVars, settings, hits, misses, instance, inv,
                   created, closed>>

\* wrapper, line 82: SETEX raises; nothing catches it
CallSetexFails(p) ==
    /\ call[p].pc = "setex"
    /\ call' = [call EXCEPT ![p].pc = "done", ![p].raised = TRUE]
    /\ UNCHANGED <<now, store, limiterVars, dataVars, settings, hits, misses, instance,
                   inv, created, closed, recorded>>

\* the underlying operation returns any of its results
CallFunc(p) == CallFuncWith(p, DOMAIN WrappedOps[call[p].op].results)

\* the underlying operation reads the entity and returns the result for
\* the version it finds
CallRead(p) == CallFuncWith(p, {db})

\* a write path updates the entity that the article list is computed from
WriteEntity ==
    /\ db = 1
    /\ inv.pc = "idle"
    /\ db' = 2
    /\ UNCHANGED <<now, store, limiterVars, settings, hits, misses, instance,
                   call, inv, created, closed, recorded, built>>

\* and then calls invalidate_cache with the patterns of the list
WriteInvalidate ==
    /\ db = 2
    /\ InvStart({<<Pattern(<<"articles", "list">>, TRUE)>>})

CallsQuiescent == \A p \in Procs : call[p].pc \in {"idle", "done"}

\* RedisClient.close_redis, between calls
CloseRedis ==
    /\ CallsQuiescent
    /\ Len(closed) < MaxCloses
    /\ closed' = Append(closed, instance)
    /\ instance' = 0
    /\ UNCHANGED <<now, store, limiterVars, dataVars, settings, hits, misses, call, inv,
                   created, recorded>>

CallStep(p) ==
    \/ Acquire(p)
    \/ Connect(p)
    \/ CallGet(p)
    \/ CallFunc(p)
    \/ CallSetex(p)

Step(p) ==
    \/ GetCurrent(p)
    \/ GetPrevious(p)
    \/ Decide(p)
    \/ Increment(p)
    \/ Expire(p)
    \/ Respond(p)

Tables(max_limit, max_window) ==
    {WithQuota(LoadLimitConfigs, limit, window) :
        limit \in 1..max_limit, window \in 1..max_window}

\* the process before any wrapped call: counters at 0 (monitoring.py:4-5),
\* no connection (redis_client.py:9)
CacheInitWith(enabled) ==
    /\ settings \in [cache_enabled : enabled]
    /\ hits = 0
    /\ misses = 0
    /\ instance = 0
    /\ call = [p \in Procs |-> IdleCall]
    /\ inv = IdleInv
    /\ created = 0
    /\ closed = <<>>
    /\ recorded = [hit |-> 0, miss |-> 0, written |-> <<>>]
    /\ built = <<>>
    /\ db = 1

LimiterInitWith(tables, entries) ==
    /\ now = 0
    /\ store = entries
    /\ limit_configs \in tables
    /\ req = [p \in Procs |-> IdleReq]
    /\ admitAt = [t \in Ticks |-> 0]
    /\ admittedIn = <<>>

InitWith(tables, entries) ==
    /\ LimiterInitWith(tables, entries)
    /\ CacheInitWith({TRUE})

\* one worker, one check at a time, each at one instant
SeqInit == InitWith(Tables(MaxLimit, MaxWindow), <<>>)

SeqNext ==
    \/ SeqDispatch(1)
    \/ Tick(MaxTime)

SeqSpec == SeqInit /\ [][SeqNext]_vars

\* NumProc workers whose checks interleave step by step, the clock standing
\* still while a check is in flight
RaceInit == InitWith(Tables(RaceLimit, RaceWindow), <<>>)

RaceNext ==
    \/ \E p \in Procs : Start(p, MeteredPaths)
    \/ \E p \in Procs : Step(p)
    \/ (Quiescent /\ Tick(RaceTime))

RaceSpec == RaceInit /\ [][RaceNext]_vars

\* the whole service: requests of every kind, one at a time, the clock
\* free to advance between any two steps, and the cache invalidator
Init == InitWith(Tables(DispatchLimit, DispatchWindow), CacheEntries)

Next ==
    \/ \E p \in Workers : Start(p, Paths)
    \/ \E p \in Workers : Step(p)
    \/ Invalidate
    \/ Tick(RaceTime)

Spec == Init /\ [][Next]_vars

\* the cache-aside wrapper: calls of the wrapped operations one at a time,
\* caching enabled or disabled, a store that can fail, entries that expire,
\* and the shared connection closed between calls
CacheInit ==
    /\ \/ LimiterInitWith({LoadLimitConfigs}, <<>>)
       \/ LimiterInitWith({LoadLimitConfigs}, CacheEntries)
    /\ CacheInitWith(BOOLEAN)

CacheNext ==
    \/ \E p \in Workers : CallStart(p, DOMAIN WrappedOps)
    \/ \E p \in Workers : CallStep(p)
    \/ \E p \in Workers : CallGetFails(p)
    \/ \E p \in Workers : CallSetexFails(p)
    \/ CloseRedis
    \/ Tick(CacheTime)

CacheSpec == CacheInit /\ [][CacheNext]_vars

\* wrapped calls of several workers at once: the steps between two awaits
\* of one call are atomic, the calls interleave at their awaits
CacheRaceInit ==
    /\ LimiterInitWith({LoadLimitConfigs}, <<>>)
    /\ CacheInitWith({TRUE})

CacheRaceNext ==
    \/ \E p \in Procs : CallStart(p, DOMAIN WrappedOps)
    \/ \E p \in Procs : CallStep(p)

CacheRaceSpec == CacheRaceInit /\ [][CacheRaceNext]_vars

\* one worker whose requests are served one store command at a time while
\* the clock runs on: any time can pass at each await of a check
DelayInit == InitWith(Tables(DispatchLimit, DispatchWindow), <<>>)

DelayNext ==
    \/ \E p \in Workers : Start(p, MeteredPaths)
    \/ \E p \in Workers : Step(p)
    \/ Tick(DelayTime)

DelaySpec == DelayInit /\ [][DelayNext]_vars

\* one worker whose requests are served one store command at a time while
\* the clock runs on, requests cancelled between INCR and EXPIRE included;
\* the time of the latest admission is kept
LockoutStep(p) ==
    \/ GetCurrent(p)
    \/ GetPrevious(p)
    \/ DecideRecorded(p)
    \/ Increment(p)
    \/ Expire(p)
    \/ Respond(p)
    \/ Cancel(p)

LockoutNext ==
    \/ \E p \in Workers : Start(p, MeteredPaths)
    \/ \E p \in Workers : LockoutStep(p)
    \/ Tick(LockTime)

LockoutSpec == DelayInit /\ [][LockoutNext]_vars

\* the same, with requests that can be cancelled between INCR and EXPIRE;
\* the clock keeps running and a store command that was sent returns
ReclaimNext ==
    \/ \E p \in Workers : Start(p, MeteredPaths)
    \/ \E p \in Workers : Step(p)
    \/ \E p \in Workers : Cancel(p)
    \/ Tick(DelayTime)

ReclaimSpec ==
    /\ DelayInit
    /\ [][ReclaimNext]_vars
    /\ WF_vars(Tick(DelayTime))
    /\ WF_vars(\E p \in Workers : Step(p))

\* reads of the article list by several workers while a write path updates
\* the entity and invalidates the list
StaleInit ==
    /\ LimiterInitWith({LoadLimitConfigs}, <<>>)
    /\ CacheInitWith({TRUE})

StaleNext ==
    \/ \E p \in Procs : CallStart(p, {2})
    \/ \E p \in Procs : Acquire(p)
    \/ \E p \in Procs : Connect(p)
    \/ \E p \in Procs : CallGet(p)
    \/ \E p \in Procs : CallRead(p)
    \/ \E p \in Procs : CallSetex(p)
    \/ WriteEntity
    \/ WriteInvalidate
    \/ InvScan
    \/ InvDelete

StaleSpec == StaleInit /\ [][StaleNext]_vars

\* the key builder applied to every combination of filters
KeyInit ==
    /\ LimiterInitWith({LoadLimitConfigs}, <<>>)
    /\ CacheInitWith({TRUE})

KeyNext == BuildKey

KeySpec == KeyInit /\ [][KeyNext]_vars

\* invalidate_cache one store command at a time, on every store made of
\* the entries above, with no other writer; a store command that was sent
\* returns, so the call is not suspended for ever
InvInit ==
    /\ \E keys \in SUBSET DOMAIN InvalidateEntries :
           LimiterInitWith({LoadLimitConfigs},
                           [k \in keys |-> InvalidateEntries[k]])
    /\ CacheInitWith({TRUE})

InvNext ==
    \/ InvStart(InvalidatePatternLists)
    \/ InvScan
    \/ InvDelete

InvSpec ==
    InvInit /\ [][InvNext]_vars /\ WF_vars(InvScan) /\ WF_vars(InvDelete)

\* the quota table at work: requests of every shape, one at a time, followed
\* until MaxCounters counters have been created
ConfigInit == InitWith(Tables(ConfigLimit, ConfigWindow), <<>>)

ConfigNext ==
    \/ /\ Cardinality(DOMAIN admittedIn) < MaxCounters
       /\ \E p \in Workers :
              StartWith(p, ConfigPaths, ConfigUsers, ForwardedFor)
    \/ \E p \in Workers : Step(p)
    \/ Tick(ConfigTime)

ConfigSpec == ConfigInit /\ [][ConfigNext]_vars

\* requests of every shape against the quota table as the source has it
TableInit == InitWith({LoadLimitConfigs}, <<>>)

TablePaths ==
    {"/static/logo.png", "/api/users/login", "/api/articles",
     "/api/articles/intro", "/api/articles/intro/comments"}

TableNext ==
    \/ /\ Cardinality(DOMAIN admittedIn) < MaxCounters
       /\ \E p \in Workers :
              StartWith(p, TablePaths, ConfigUsers, NoHeader)
    \/ \E p \in Workers : Step(p)
    \/ Tick(ConfigTime)

TableSpec == TableInit /\ [][TableNext]_vars

\* ====================================================== the claims checked
CounterKeys ==
    {GenerateKey(<<"ip", client>>, path, window) :
        client \in Clients, path \in MeteredPaths, window \in Seconds}

\* the stored counter, a missing counter counting as 0
Stored(key) == IF key \in DOMAIN store THEN store[key].val ELSE 0

\* a metered request of worker p has just been answered, at this instant
JustChecked(p) ==
    /\ req[p].pc = "done"
    /\ req[p].checks = 1
    /\ req[p].t_request = now

\* C1: a sequential check made at time t admits the request exactly when
\* current_count + previous_count * (1 - (t - current_window) / window) is
\* below limit, the two counts being the stored counters of the window that
\* holds t and of the window before it (0 when missing); a previous count of
\* 10 at elapsed fraction 0.9 weighs 1.
C1_AdmitsIffWeightedBelowLimit ==
    /\ \A p \in Procs : JustChecked(p) =>
        LET r == req[p]
            W == r.config.window
            L == r.config.limit
            cw == r.current_window
            den == W * TicksPerSec
            e == now - cw * TicksPerSec
            cur == Stored(CounterKey(r, cw)) - (IF r.allowed THEN 1 ELSE 0)
            prev == Stored(CounterKey(r, cw - W))
        IN  /\ cw % W = 0
            /\ 0 <= e /\ e < den
            /\ cur = r.current_count
            /\ prev = r.previous_count
            /\ r.allowed <=> (cur * den + prev * (den - e) < L * den)
    /\ WeightedNum(0, 10, 9 * TicksPerSec, 10) = 1 * WeightDen(10)
    /\ Allowed(WeightedNum(3, 10, 9 * TicksPerSec, 10), 5, 10)
    /\ ~Allowed(WeightedNum(4, 10, 9 * TicksPerSec, 10), 5, 10)

\* a request admitted only because the previous window is discounted
C1_Witness ==
    \E p \in Procs :
        /\ JustChecked(p)
        /\ req[p].allowed
        /\ req[p].previous_count > 0
        /\ req[p].current_count + req[p].previous_count >= req[p].config.limit

\* C2: while the previous-window counter is empty, a sequential check is
\* admitted exactly when fewer than limit checks were admitted before it in
\* its window: the first limit checks of a window pass, every later one fails.
C2_FirstLimitChecksAdmitted ==
    \A p \in Procs :
        (JustChecked(p) /\ Stored(CounterKey(req[p],
                req[p].current_window - req[p].config.window)) = 0) =>
        LET r == req[p]
            before == Count(admittedIn, CounterKey(r, r.current_window))
                          - (IF r.allowed THEN 1 ELSE 0)
        IN  r.allowed <=> before < r.config.limit

\* the check after the limit-th admission of a window is rejected
C2_Witness ==
    \E p \in Procs :
        /\ JustChecked(p)
        /\ ~req[p].allowed
        /\ req[p].previous_count = 0
        /\ req[p].config.limit >= 2
        /\ Count(admittedIn, CounterKey(req[p], req[p].current_window))
               = req[p].config.limit

\* the admissions decided at the ticks t .. t + n - 1
RECURSIVE AdmittedFrom(_, _)
AdmittedFrom(t, n) ==
    IF n = 0 \/ t > MaxTime THEN 0
    ELSE admitAt[t] + AdmittedFrom(t + 1, n - 1)

TheLimit == GetRateLimitConfig(limit_configs, "/api/articles").limit
TheWindow == GetRateLimitConfig(limit_configs, "/api/articles").window

PendingIncr(key) ==
    Cardinality({p \in Procs :
        /\ req[p].pc = "incr"
        /\ CounterKey(req[p], req[p].current_window) = key})

\* C5: under every interleaving a live counter holds one count for each check
\* admitted on its window whose increment has been issued: none is lost.
C5_NoLostIncrement ==
    \A key \in DOMAIN store \cup DOMAIN admittedIn :
        (key \in DOMAIN store \/ PendingIncr(key) > 0) =>
            Stored(key) + PendingIncr(key) = Count(admittedIn, key)

\* two racing checks admitted on one counter, one incremented, one about to
C5_Witness ==
    \E p, q \in Procs :
        /\ p # q
        /\ req[p].pc = "incr"
        /\ req[q].pc = "expire"
        /\ req[p].current_window = req[q].current_window
        /\ Stored(CounterKey(req[q], req[q].current_window)) >= 1

\* key left the store because its time to live ran out
Expired(key) ==
    /\ store[key].exp # NoExpiry
    /\ now' >= store[key].exp

\* key was deleted by an invalidate_cache call with a pattern matching it
Invalidated(key) ==
    \E patterns \in InvalidateCalls :
        /\ store' = InvalidateCache(store, patterns).store
        /\ \E i \in DOMAIN patterns : KeyMatches(patterns[i], key)

C7_ForwardedIffAdmitted ==
    \A p \in Workers :
        (req[p].pc = "done" /\ req[p].checks = 1) =>
            IF req[p].allowed
            THEN /\ req[p].response.forwarded = 1
                 /\ req[p].response.status # 429
            ELSE /\ req[p].response.forwarded = 0
                 /\ req[p].response.status = 429
                 /\ req[p].response.body = {"error", "message", "retry_after"}

\* a rejected request, answered 429 without reaching the pipeline
C7_Witness ==
    \E p \in Workers :
        /\ req[p].pc = "done"
        /\ req[p].checks = 1
        /\ ~req[p].allowed
        /\ req[p].response.status = 429
        /\ req[p].response.forwarded = 0

\* C8 as claimed: the retry_after of a rejection is never negative and never
\* above window_seconds, also when the clock advances during the request.
C8_RetryAfterInRange ==
    \A p \in Workers :
        (req[p].pc = "done" /\ req[p].response.status = 429) =>
            /\ req[p].response.retry_after >= 0
            /\ req[p].response.retry_after <= req[p].config.window

RateLimitHeaders ==
    {"X-RateLimit-Limit", "X-RateLimit-Remaining", "X-RateLimit-Reset"}

\* C9 as claimed: every response to a request outside the static prefix
\* carries the three rate-limit headers.
C9_HeadersOnEveryResponse ==
    \A p \in Workers :
        (req[p].pc = "done" /\ ~StartsWithStatic(req[p].path)) =>
            RateLimitHeaders \subseteq DOMAIN req[p].response.headers

\* C9 as amended: the response to a request whose path has a quota (limit
\* above 0) carries the three headers with the limit, remaining and
\* reset_time of its check, admitted or rejected; the response to a request
\* whose path has no quota carries none of them.
C9_HeadersOnMeteredResponses ==
    \A p \in Workers :
        (req[p].pc = "done" /\ ~StartsWithStatic(req[p].path)) =>
            IF GetRateLimitConfig(limit_configs, req[p].path).limit > 0
            THEN /\ DOMAIN req[p].response.headers = RateLimitHeaders
                 /\ req[p].response.headers["X-RateLimit-Limit"]
                        = ToString(req[p].info.limit)
                 /\ req[p].response.headers["X-RateLimit-Remaining"]
                        = ToString(req[p].info.remaining)
                 /\ req[p].response.headers["X-RateLimit-Reset"]
                        = ToString(req[p].info.reset_time)
            ELSE DOMAIN req[p].response.headers = {}

\* an admitted request whose response carries the headers
C9_Witness ==
    \E p \in Workers :
        /\ req[p].pc = "done"
        /\ req[p].checks = 1
        /\ req[p].allowed
        /\ DOMAIN req[p].response.headers = RateLimitHeaders

\* C10: a request under the static prefix is forwarded at once: the limiter
\* is not consulted, no key of the store changes, and the response has no
\* rate-limit header.
C10_StaticBypass ==
    [][\A p \in Workers :
          (req'[p] # req[p] /\ StartsWithStatic(req'[p].path)) =>
              /\ req'[p].pc = "done"
              /\ req'[p].response.forwarded = 1
              /\ req'[p].checks = 0
              /\ DOMAIN req'[p].response.headers = {}
              /\ store' = store]_vars

\* a static request answered by the pipeline while a counter is at its limit
C10_Witness ==
    \E p \in Workers :
        /\ req[p].pc = "done"
        /\ StartsWithStatic(req[p].path)
        /\ req[p].response.forwarded = 1
        /\ \E key \in CounterKeys \cap DOMAIN store :
               store[key].val >= TheLimit

\* ------------------------------------------------------------------ C11
\* pattern is parametrized, has as many segments as path, and each of its
\* segments that is no placeholder equals the segment of path at its place
Covers(pattern, path) ==
    LET pattern_parts == Split(pattern)
        path_parts == Split(path)
    IN  /\ \E i \in DOMAIN pattern_parts : IsPlaceholder(pattern_parts[i])
        /\ Len(pattern_parts) = Len(path_parts)
        /\ \A i \in DOMAIN pattern_parts :
               ~IsPlaceholder(pattern_parts[i]) =>
                   pattern_parts[i] = path_parts[i]

\* config is what the claim resolves for path
ResolvesTo(path, config) ==
    IF \E i \in DOMAIN limit_configs : limit_configs[i][1] = path
    THEN \E i \in DOMAIN limit_configs :
             limit_configs[i][1] = path /\ config = limit_configs[i][2]
    ELSE IF \E i \in DOMAIN limit_configs : Covers(limit_configs[i][1], path)
         THEN \E i \in DOMAIN limit_configs :
                  /\ Covers(limit_configs[i][1], path)
                  /\ config = limit_configs[i][2]
         ELSE config.limit = 0

\* C11: the quota of a request outside the static prefix is the entry
\* registered under its path, else the entry of a parametrized pattern with
\* the same number of segments and equal literal segments, else limit 0; a
\* request resolved to limit 0 is forwarded without a check and not rejected.
C11_ConfigResolution ==
    \A p \in Workers :
        (req[p].pc # "idle" /\ ~StartsWithStatic(req[p].path)) =>
            IF req[p].checks = 1
            THEN /\ ResolvesTo(req[p].path, req[p].config)
                 /\ req[p].config.limit > 0
            ELSE /\ ResolvesTo(req[p].path, RateLimitConfig(0, 60, "ip"))
                 /\ req[p].pc = "done"
                 /\ req[p].response.forwarded = 1
                 /\ req[p].response.status # 429

\* a path with a trailing segment that only a pattern covers has been
\* metered, with the quota of that pattern
C11_Witness ==
    \E p \in Workers :
        /\ req[p].pc = "done"
        /\ req[p].path = "/api/articles/intro/comments"
        /\ req[p].checks = 1
        /\ req[p].config.dimension = "user"

\* ------------------------------------------------------------------ C12
\* the first address of each forwarded-for header of the model
ExpectedAddress(request) ==
    CASE request.x_forwarded_for = "" -> request.client
      [] request.x_forwarded_for = "10.9.9.9" -> "10.9.9.9"
      [] request.x_forwarded_for = " 10.9.9.9 , 10.0.0.7" -> "10.9.9.9"
      [] request.x_forwarded_for = "10.0.0.1,10.9.9.9" -> "10.0.0.1"

ExpectedIdentifier(request) ==
    IF request.config.dimension = "user" /\ request.user # ""
    THEN <<"user", request.user>>
    ELSE <<"ip", ExpectedAddress(request)>>

\* C12: a request under a user-dimension quota is metered under its
\* principal's id when it has one and under its IP identifier (first
\* forwarded-for address, else the peer address) when it has none; a request
\* whose quota has limit > 0 is always checked, and its admission is counted
\* on the counter of that identifier.
C12_IdentifierFallback ==
    \A p \in Workers :
        (req[p].pc # "idle" /\ ~StartsWithStatic(req[p].path)) =>
            /\ GetRateLimitConfig(limit_configs, req[p].path).limit > 0
                   => req[p].checks = 1
            /\ req[p].checks = 1 =>
                   /\ req[p].identifier = ExpectedIdentifier(req[p])
                   /\ (req[p].pc = "done" /\ req[p].allowed) =>
                          Count(admittedIn,
                                GenerateKey(ExpectedIdentifier(req[p]),
                                            req[p].path,
                                            req[p].current_window)) >= 1

\* a request without a principal under a user-dimension quota, admitted on
\* the counter of the first forwarded-for address
C12_Witness ==
    \E p \in Workers :
        /\ req[p].pc = "done"
        /\ req[p].allowed
        /\ req[p].config.dimension = "user"
        /\ req[p].user = ""
        /\ req[p].x_forwarded_for = " 10.9.9.9 , 10.0.0.7"
        /\ req[p].identifier = <<"ip", "10.9.9.9">>

\* ------------------------------------------------------------------ C13
\* C13: with caching disabled, a call of a wrapped operation invokes the
\* underlying operation exactly once and returns its result; no step of the
\* call changes the store, the hit counter, the miss counter or the shared
\* connection.
C13_DisabledCallsThrough ==
    [][ ~settings.cache_enabled =>
            \A p \in Workers :
                call'[p] # call[p] =>
                    /\ store' = store
                    /\ hits' = hits
                    /\ misses' = misses
                    /\ instance' = instance
                    /\ call'[p].pc \in {"func", "done"}
                    /\ call'[p].pc = "done" =>
                           /\ call'[p].invoked = 1
                           /\ ~call'[p].raised
                           /\ call'[p].returned = call'[p].result
                           /\ \E i \in DOMAIN WrappedOps[call[p].op].results :
                                  call'[p].result =
                                      WrappedOps[call[p].op].results[i]
      ]_vars

\* caching disabled, an entry for the key in the store: the list operation
\* has been called, has computed its result and returned it
C13_Witness ==
    \E p \in Workers :
        /\ ~settings.cache_enabled
        /\ call[p].pc = "done"
        /\ call[p].op = 2
        /\ WrappedOps[2].key \in DOMAIN store
        /\ call[p].invoked = 1
        /\ call[p].returned[2] # <<>>
        /\ hits = 0 /\ misses = 0

\* ------------------------------------------------------------------ C14
\* C14: with caching enabled, the step of a call at which GET returns raises
\* exactly one of the two counters by exactly 1, the hit counter when the
\* rendered key is in the store and the miss counter when it is not, and no
\* other step of the call changes a counter; a call that counted a hit
\* returns the cached value and never invokes the underlying operation, a
\* call that counted a miss invokes it exactly once.
C14_HitOrMiss ==
    /\ [][ settings.cache_enabled =>
               \A p \in Workers :
                   call'[p] # call[p] =>
                       IF call[p].pc = "get" /\ ~call'[p].raised
                       THEN IF WrappedOps[call[p].op].key \in DOMAIN store
                            THEN /\ hits' = hits + 1
                                 /\ misses' = misses
                                 /\ call'[p].hit = 1 /\ call'[p].miss = 0
                                 /\ call'[p].pc = "done"
                                 /\ call'[p].returned =
                                        Deserialize(
                                            WrappedOps[call[p].op].return_type,
                                            store[WrappedOps[call[p].op].key]
                                                .val)
                            ELSE /\ misses' = misses + 1
                                 /\ hits' = hits
                                 /\ call'[p].hit = 0 /\ call'[p].miss = 1
                                 /\ call'[p].pc = "func"
                       ELSE hits' = hits /\ misses' = misses
         ]_vars
    /\ [](\A p \in Workers :
              /\ call[p].hit = 1 => call[p].invoked = 0
              /\ call[p].miss = 1 =>
                     /\ call[p].pc = "func" => call[p].invoked = 0
                     /\ call[p].pc \in {"setex", "done"} =>
                            call[p].invoked = 1)

\* a call has missed, invoked the operation and stored its result, and the
\* next call of the same operation has hit that entry without invoking it
C14_Witness ==
    \E p \in Workers :
        /\ settings.cache_enabled
        /\ call[p].pc = "done"
        /\ call[p].hit = 1
        /\ call[p].invoked = 0
        /\ hits = 1 /\ misses = 1
        /\ WrappedOps[call[p].op].key \in DOMAIN recorded.written

\* ------------------------------------------------------------------ C15
\* C15: a call that hits the entry written by an earlier miss returns a
\* value equal to, and of the same shape as, the result that miss returned.
C15_RoundTrip ==
    \A p \in Workers :
        ( /\ call[p].pc = "done"
          /\ call[p].hit = 1
          /\ WrappedOps[call[p].op].key \in DOMAIN recorded.written ) =>
            call[p].returned = recorded.written[WrappedOps[call[p].op].key]

\* ------------------------------------------------------------------ C16
\* C16: a call with caching enabled that did not hit ends, whether or not
\* GET and SETEX succeeded, without an exception, with the underlying
\* operation invoked once and its result returned.
C16_StoreFailureTolerated ==
    \A p \in Workers :
        ( /\ settings.cache_enabled
          /\ call[p].pc = "done"
          /\ call[p].hit = 0 ) =>
            /\ ~call[p].raised
            /\ call[p].invoked = 1
            /\ call[p].returned = call[p].result

\* ------------------------------------------------------------------ C20
\* the connections that close_redis has closed
ClosedHandles == {closed[i] : i \in DOMAIN closed} \ {0}

\* C20: with acquires that do not overlap, the connections created are the
\* closed ones plus the shared one if there is one, so that exactly one is
\* created between two releases, and every call in flight holds the shared
\* connection, which is not a closed one; an acquire creates a connection
\* only when there is no shared one and returns the shared one otherwise;
\* release closes the shared connection and clears the reference, and
\* changes nothing when there is none.
C20_SharedConnection ==
    /\ [](/\ created = Cardinality(ClosedHandles)
                          + (IF instance # 0 THEN 1 ELSE 0)
          /\ instance \notin ClosedHandles
          /\ \A p \in Workers :
                 call[p].pc \in {"get", "func", "setex"}
                     /\ settings.cache_enabled =>
                         call[p].redis = instance /\ instance # 0)
    /\ [][ /\ \A p \in Workers :
                  (call[p].pc = "acquire" /\ call'[p].pc = "get") =>
                      /\ instance # 0
                      /\ call'[p].redis = instance
                      /\ created' = created
                      /\ instance' = instance
           /\ created' # created =>
                  /\ instance = 0
                  /\ created' = created + 1
                  /\ instance' # 0
                  /\ instance' \notin ClosedHandles
                  /\ \E p \in Workers : call'[p].redis = instance'
           /\ closed' # closed =>
                  /\ closed' = Append(closed, instance)
                  /\ instance' = 0
                  /\ created' = created
                  /\ store' = store
                  /\ instance = 0 => ClosedHandles' = ClosedHandles
         ]_vars

\* a connection was made and used, released, released again with nothing
\* to release, and the next call has made a second connection
C20_Witness ==
    \E p \in Workers :
        /\ Len(closed) = 2
        /\ closed[1] = 1
        /\ closed[2] = 0
        /\ created = 2
        /\ instance = 2
        /\ call[p].pc = "done"
        /\ call[p].redis = 2

\* ------------------------------------------------------------------ C17
\* the keys of the store at the start of the call that match at least one
\* of its patterns
Matching ==
    {k \in DOMAIN inv.before :
        \E i \in DOMAIN inv.patterns : KeyMatches(inv.patterns[i], k)}

\* C17: with no other writer, invalidate_cache never deletes a key that
\* matches none of its patterns and never changes a value; when it returns
\* it has deleted exactly the keys that match at least one pattern, however
\* many batches they were spread over, and the count it returns is the
\* number of those keys, each counted once.
C17_DeletesExactlyMatching ==
    inv.pc # "idle" =>
        /\ DOMAIN store \subseteq DOMAIN inv.before
        /\ \A k \in DOMAIN store : store[k] = inv.before[k]
        /\ (DOMAIN inv.before \ DOMAIN store) \subseteq Matching
        /\ inv.invalidated_count
               = Cardinality(DOMAIN inv.before \ DOMAIN store)
        /\ inv.pc = "done" =>
               /\ DOMAIN store = DOMAIN inv.before \ Matching
               /\ inv.invalidated_count = Cardinality(Matching)

\* a call with two overlapping patterns has returned 3, its keys deleted
\* in more than one batch, and has left the other keys in the store
C17_Witness ==
    /\ inv.pc = "done"
    /\ Len(inv.patterns) = 2
    /\ inv.invalidated_count = 3
    /\ inv.deletes >= 2
    /\ DOMAIN store # {}
    /\ \E k \in Matching :
           \A i \in DOMAIN inv.patterns : KeyMatches(inv.patterns[i], k)

\* ------------------------------------------------------------------ C18
\* C18: a call of invalidate_cache returns, whatever its patterns and the
\* content of the store; the scan loop of a pattern goes round again exactly
\* when SCAN returned a cursor other than 0, and at the first cursor 0 the
\* call moves to its next pattern or returns, whether or not a key matched.
C18_InvalidateTerminates ==
    /\ (inv.pc # "idle") ~> (inv.pc = "done")
    /\ [][ inv.pc = "delete" =>
               IF inv.cursor # 0
               THEN /\ inv'.pc = "scan"
                    /\ inv'.index = inv.index
                    /\ inv'.cursor = inv.cursor
               ELSE IF inv.index < Len(inv.patterns)
                    THEN /\ inv'.pc = "scan"
                         /\ inv'.index = inv.index + 1
                         /\ inv'.cursor = 0
                    ELSE inv'.pc = "done"
         ]_vars

\* a call whose only pattern matches no key has walked the keyspace in
\* several batches and returned 0
C18_Witness ==
    /\ inv.pc = "done"
    /\ inv.patterns = <<Pattern(<<"profile">>, TRUE)>>
    /\ inv.before # <<>>
    /\ inv.invalidated_count = 0
    /\ inv.deletes = 0

\* ------------------------------------------------------------------ C19
\* C19: after h calls of record_hit and m calls of record_miss by callers
\* interleaved in any way, get_stats reports hits = h, misses = m and
\* total = h + m; no step lowers a counter or their sum.
C19_MonitorAccounting ==
    /\ [](/\ GetStats(hits, misses).hits = recorded.hit
          /\ GetStats(hits, misses).misses = recorded.miss
          /\ GetStats(hits, misses).total = recorded.hit + recorded.miss)
    /\ [][ /\ hits' >= hits
           /\ misses' >= misses
           /\ GetStats(hits', misses').total >= GetStats(hits, misses).total
         ]_vars

\* two callers at once: one has counted a hit and returned while the other,
\* having counted a miss, is still in its call; three calls were counted
C19_Witness ==
    \E p, q \in Procs :
        /\ call[p].pc = "done" /\ call[p].hit = 1
        /\ call[q].pc \in {"func", "setex"} /\ call[q].miss = 1
        /\ GetStats(hits, misses).hits = 1
        /\ GetStats(hits, misses).misses = 2

\* ------------------------------------------------------------------ C21
\* C21: for the same page and limit, two calls of the article-list key
\* builder yield the same key exactly when their tag, author and favorited
\* arguments are the same.
C21_KeysDistinguishFilters ==
    \A i, j \in DOMAIN built :
        ( /\ built[i].args.page = built[j].args.page
          /\ built[i].args.limit = built[j].args.limit ) =>
            ( built[i].key = built[j].key <=> built[i].args = built[j].args )

\* ------------------------------------------------------------------ C22
\* the step at which the check of worker p takes its decision
Deciding(p) == req[p].pc = "decide" /\ req'[p].pc # "decide"

\* C22: at every decision the elapsed time read for the weighting is at
\* least 0 and less than the window, so that the weight of the previous
\* window is not negative and weighted_count is at least current_count,
\* whatever time has passed since current_window was computed.
C22_ElapsedFractionInRange ==
    [][ \A p \in Workers :
            Deciding(p) =>
                LET r == req[p]
                    elapsed == Elapsed(now, r.current_window)
                    den == WeightDen(r.config.window)
                IN  /\ 0 <= elapsed
                    /\ elapsed < den
                    /\ WeightedNum(r.current_count, r.previous_count,
                                   elapsed, r.config.window)
                           >= r.current_count * den
      ]_vars

\* ------------------------------------------------------------------ C23
\* C23: every check returns remaining = max(0, limit - floor(weighted_count)
\* - (1 if allowed else 0)) and reset_time = current_window + window;
\* remaining is 0 on a rejection and between 0 and limit - 1 on an
\* admission. (floor of the fraction weighted / den is weighted \div den.)
C23_RemainingAndReset ==
    [][ \A p \in Workers :
            Deciding(p) =>
                LET r == req[p]
                    limit == r.config.limit
                    den == WeightDen(r.config.window)
                    weighted == WeightedNum(r.current_count, r.previous_count,
                                            Elapsed(now, r.current_window),
                                            r.config.window)
                    info == req'[p].info
                    allowed == req'[p].allowed
                IN  /\ info.remaining
                           = Max(0, limit - (weighted \div den)
                                       - (IF allowed THEN 1 ELSE 0))
                    /\ info.reset_time = r.current_window + r.config.window
                    /\ ~allowed => info.remaining = 0
                    /\ allowed =>
                           0 <= info.remaining /\ info.remaining <= limit - 1
      ]_vars

\* ------------------------------------------------------------------ C24
\* the end, in ticks, of the window that follows the window starting at
\* second window_start
FollowingEnd(window_start) == (window_start + 2 * TheWindow) * TicksPerSec

\* the EXPIRE of an admission sets the expiry of its counter to two windows
\* from the moment it is executed
ExpireSetsTwoWindows ==
    \A p \in Workers :
        (req[p].pc = "expire" /\ req'[p].pc = "respond") =>
            LET key == CounterKey(req[p], req[p].current_window)
            IN  key \in DOMAIN store =>
                    /\ key \in DOMAIN store'
                    /\ store'[key].exp
                           = now + 2 * req[p].config.window * TicksPerSec

AdmissionsStopped(key, w) ==
    /\ now >= (w + TheWindow) * TicksPerSec
    /\ \A p \in Procs :
           req[p].pc \in {"idle", "done"}
               \/ CounterKey(req[p], req[p].current_window) # key

\* C25: every counter is removed from the store some time after the
\* admissions on it have stopped, also when a request was cancelled between
\* its INCR and its EXPIRE. (Stated for the counters whose removal is due
\* within the time the clock of the model covers.)
C25_CountersReclaimed ==
    \A client \in Clients, path \in MeteredPaths, w \in Seconds :
        LET key == GenerateKey(<<"ip", client>>, path, w)
        IN  []( ( /\ key \in DOMAIN store
                  /\ AdmissionsStopped(key, w)
                  /\ now + 2 * TheWindow * TicksPerSec <= DelayTime )
                    => <>(key \notin DOMAIN store) )

\* ------------------------------------------------------------------ C26
\* C26: a step of a wrapped call writes to the store if and only if it is
\* the SETEX that follows a miss with a non-null result; the entry is then
\* the serialized result under the rendered key, expiring after the ttl of
\* the decorator if it has one and after the configured default otherwise.
\* A miss with a null result returns it and leaves the key absent, so that
\* the next call of that key misses again.
C26_StoresNonNullWithTtl ==
    [][ \A p \in Workers :
            call'[p] # call[p] =>
                LET op == WrappedOps[call[p].op]
                    seconds == IF op.ttl # 0 THEN op.ttl ELSE 300
                IN  /\ store' # store =>
                           /\ call[p].pc = "setex"
                           /\ call[p].miss = 1
                           /\ call[p].result # PyNone
                    /\ (call[p].pc = "setex" /\ ~call'[p].raised) =>
                           /\ op.key \in DOMAIN store'
                           /\ store'[op.key].val = Serialize(call[p].result)
                           /\ store'[op.key].exp
                                  = now + seconds * TicksPerSec
                           /\ \A k \in DOMAIN store \ {op.key} :
                                  k \in DOMAIN store' /\ store'[k] = store[k]
                    /\ ( /\ call[p].pc = "func"
                         /\ call[p].miss = 1
                         /\ call'[p].result = PyNone ) =>
                           /\ call'[p].pc = "done"
                           /\ call'[p].returned = PyNone
                           /\ op.key \notin DOMAIN store'
      ]_vars

\* the second miss of a run in which nothing was ever stored: the operation
\* was invoked, returned null, and the store is still empty
C26_Witness ==
    \E p \in Workers :
        /\ settings.cache_enabled
        /\ call[p].pc = "done"
        /\ call[p].op = 4
        /\ call[p].miss = 1
        /\ call[p].invoked = 1
        /\ call[p].returned = PyNone
        /\ misses = 2 /\ hits = 0
        /\ store = <<>>
        /\ recorded.written = <<>>
        /\ now = 0
        /\ Len(closed) = 0

\* ------------------------------------------------------------------ C27
\* C27: with /api/articles registered twice, every request to /api/articles
\* is metered with limit 100 per 60 seconds under its IP identifier, the
\* later registration, and no request of any path is metered with the
\* earlier one (10 per 3600 seconds, user dimension).
C27_LaterRegistrationWins ==
    \A p \in Workers :
        req[p].pc # "idle" =>
            /\ req[p].config # RateLimitConfig(10, 3600, "user")
            /\ req[p].path = "/api/articles" =>
                   /\ req[p].checks = 1
                   /\ req[p].config = RateLimitConfig(100, 60, "ip")
                   /\ req[p].identifier = GetIpIdentifier(req[p])
                   /\ req[p].pc \in {"incr", "expire", "respond", "done"} =>
                          /\ req[p].info.limit = 100
                          /\ req[p].info.reset_time = req[p].current_window + 60

\* a request to /api/articles that carries a principal, metered under its
\* address with 100 per 60 seconds, after more than 10 admissions were
\* possible: the second admission on the same counter
C27_Witness ==
    \E p \in Workers :
        /\ req[p].pc = "done"
        /\ req[p].path = "/api/articles"
        /\ req[p].user = "7"
        /\ req[p].allowed
        /\ req[p].identifier[1] = "ip"
        /\ req[p].info.limit = 100
        /\ req[p].info.remaining = 98

\* ------------------------------------------------------------------ C28
\* C28: with callers that overlap and no release, a connection is created by
\* every caller that saw the shared reference uninitialized before it was
\* set, so that as many connections as there are racing callers can be
\* created, never more; the last one created is the shared one, and a
\* caller holds the connection it created or the shared one it found.
C28_RacingFirstCallers ==
    /\ [](/\ created <= NumProc
          /\ created > 0 => instance = created
          /\ \A p \in Procs : call[p].redis \in 0..created)
    /\ [][ created' # created =>
               /\ created' = created + 1
               /\ instance' = created'
               /\ \E p \in Procs :
                      /\ call[p].pc = "connect"
                      /\ call'[p].redis = created'
         ]_vars

\* two callers raced on the uninitialized reference: two connections were
\* created, and the two calls in flight hold different ones
C28_Witness ==
    \E p, q \in Procs :
        /\ created = 2
        /\ closed = <<>>
        /\ call[p].pc \in {"get", "func", "setex"}
        /\ call[q].pc \in {"get", "func", "setex"}
        /\ call[p].redis = 1
        /\ call[q].redis = 2
        /\ instance = 2

\* ------------------------------------------------------------------ C29
\* C29: a read of the article list that began after the write path's
\* invalidate_cache had returned returns the list as it is after the write,
\* also when another read of the list was in flight during the write and
\* the invalidation.
C29_NoStaleReadAfterInvalidation ==
    \A p \in Procs :
        ( /\ call[p].pc = "done"
          /\ call[p].after_invalidation
          /\ ~call[p].raised ) =>
            call[p].returned = WrappedOps[call[p].op].results[2]

\* ------------------------------------------------------------------ C30
\* no request of the pair was admitted later than tick t0
NoAdmissionAfter(t0) == \A t \in Ticks : t > t0 => admitAt[t] = 0

\* the check of worker p was made when the pair had had no admitted request
\* for 2 * window seconds, and none was admitted since
IdleTwoWindows(p) ==
    NoAdmissionAfter(req[p].t_request
                         - 2 * req[p].config.window * TicksPerSec)

\* C30: no pair is locked out for good. With a limit of at least 1, a check
\* made when the pair has had no admitted request for 2 * window seconds
\* is admitted, whatever time its store commands take; a rejected check
\* returns without a store command, and every change of a counter or of an
\* expiry is the INCR or the EXPIRE of an admitted check, or the store
\* dropping an expired key.
C30_NeverLockedOut ==
    /\ [][\A p \in Procs :
            ( /\ Deciding(p)
              /\ req[p].config.limit >= 1
              /\ IdleTwoWindows(p) ) => req'[p].allowed]_vars
    /\ [][\A p \in Procs :
            (Deciding(p) /\ ~req'[p].allowed) =>
                (store' = store /\ req'[p].pc = "done")]_vars
    /\ [][store' # store =>
            \/ now' # now
            \/ \E p \in Procs : /\ req[p].pc \in {"incr", "expire"}
                                /\ req[p].allowed]_vars

\* a check that is about to decide was made 2 * window seconds or more
\* after the latest admission of the pair, whose counter had reached the
\* limit
C30_Witness ==
    \E p \in Procs, t \in Ticks :
        /\ req[p].pc = "decide"
        /\ admitAt[t] = 1
        /\ t + 2 * req[p].config.window * TicksPerSec <= req[p].t_request
        /\ IdleTwoWindows(p)
        /\ \E key \in DOMAIN admittedIn :
               admittedIn[key] >= req[p].config.limit
====
